---- MODULE Spec2Model ----
(***************************************************************************)
(* Shard bucketing strategies of django_sharding_library                   *)
(* (sharding_functions.py).  The registry ("databases"), one strategy      *)
(* instance and the record of the last call are the state; every method of *)
(* the module is an action or an operator translated from its body.        *)
(* The module is Python 2 code (itertools.cycle(...).next()).              *)
(***************************************************************************)
EXTENDS Integers, Sequences, FiniteSets, TLC

VARIABLES
    databases,   \* the registry: a dict  name -> config
    strategy,    \* the strategy instance held by the caller (its attributes)
    ret,         \* the last call: operation, outcome, returned value
    picks,       \* history: values returned by pick_shard since construction
    resolved,    \* history: what get_shards returned inside the constructor
    offset,      \* history: starting_index drawn by the constructor
    hash_table,  \* the process's builtin hash(), restricted to the keys used
    threads      \* concurrent callers of pick_shard (position and result)

vars == <<databases, strategy, ret, picks, resolved, offset, hash_table, threads>>

----------------------------------------------------------------------------
(* Bounds                                                                  *)

MaxPartitions == 3
MaxCalls == 4
MaxPk == 2
NumThreads == 3

----------------------------------------------------------------------------
(* Values                                                                  *)

None == "None"
PyTrue == "True"
PyFalse == "False"

AllNames == <<"s0", "s1", "s2", "s3", "s4">>
Names == {AllNames[i] : i \in 1..MaxPartitions}
Groups == {"default", "other"}

\* config.get('SHARD_GROUP') and config.get('PRIMARY'): None when the key is absent
Configs == [SHARD_GROUP : Groups \cup {None}, PRIMARY : {None, PyFalse, PyTrue}]

Registries(cs) == UNION {[S -> cs] : S \in SUBSET Names}

\* the orders in which a dict's items() may list its keys
Orders(S) == {o \in [1..Cardinality(S) -> S] : \A i, j \in 1..Cardinality(S) : o[i] = o[j] => i = j}

\* databases.items() listed in the order o
Items(dbs, o) == [i \in 1..Len(o) |-> [name |-> o[i], config |-> dbs[o[i]]]]

Range(s) == {s[i] : i \in 1..Len(s)}

\* a primary test written as "PRIMARY is not None"
Truthy_not_none(v) == v # None

\* Python truth value of a config entry
Truthy(v) == v = PyTrue

PKs == 1..MaxPk
Entities == [pk : PKs, shard : Names \cup {None}]

\* str(pk) of a non-negative int: its decimal digits
RECURSIVE str(_)
str(n) == IF n < 10 THEN <<n>> ELSE Append(str(n \div 10), n % 10)

HashValues == {-3, 4}
StrKeys == {str(pk) : pk \in PKs}

\* builtin hash of a str
hash(s) == hash_table[s]

NoInstance == [cls |-> "none"]
NoModel == [pk |-> 0, shard |-> None]

\* the record of a call: the method, the instance's class, the entity passed,
\* how it ended ("ok" or the exception raised) and what it returned
Call(op, cls, model, outcome, value, list) ==
    [op |-> op, cls |-> cls, model |-> model, outcome |-> outcome, value |-> value, list |-> list]

NoCall == Call("none", "none", NoModel, "none", None, <<>>)

----------------------------------------------------------------------------
(* BaseBucketingStrategy                                                   *)

\* the classes' method resolution orders
MRO(cls) ==
    CASE cls = "Base" -> <<"Base">>
      [] cls = "BaseShardedModel" -> <<"BaseShardedModel", "Base">>
      [] cls = "RoundRobin" -> <<"RoundRobin", "BaseShardedModel", "Base">>
      [] cls = "Random" -> <<"Random", "BaseShardedModel", "Base">>
      [] cls = "Mod" -> <<"Mod", "Base">>
      [] cls = "SavedMod" -> <<"SavedMod", "BaseShardedModel", "Mod", "Base">>

Classes == {"RoundRobin", "Random", "Mod", "SavedMod"}
StickyClasses == {cls \in Classes : "BaseShardedModel" \in Range(MRO(cls))}

\* an object of class cls before any __init__ ran
new(cls) == [cls |-> cls]

\* __init__: self.shard_group = shard_group
Base_init(self, shard_group) == [cls |-> self.cls, shard_group |-> shard_group]

\* super(type, self).__init__(shard_group): a TypeError unless self is an
\* instance of type; otherwise the next __init__ in the MRO, which is Base's
super_init(type, self, shard_group) ==
    IF type \notin Range(MRO(self.cls))
    THEN [outcome |-> "TypeError", self |-> self]
    ELSE [outcome |-> "ok", self |-> Base_init(self, shard_group)]

\* get_shards: the names whose config is of this group and not primary,
\* in the order items() lists them
RECURSIVE get_shards_loop(_, _, _)
get_shards_loop(shard_group, items, i) ==
    IF i > Len(items) THEN <<>>
    ELSE LET config == items[i].config
             rest == get_shards_loop(shard_group, items, i + 1)
         IN IF config.SHARD_GROUP = shard_group /\ ~Truthy(config.PRIMARY)
            THEN <<items[i].name>> \o rest
            ELSE rest

get_shards(self, items) == get_shards_loop(self.shard_group, items, 1)

----------------------------------------------------------------------------
(* RoundRobinBucketingStrategy                                             *)

Max(a, b) == IF a >= b THEN a ELSE b

\* the two slices concatenated in the wrong order: shards[:i] + shards[i:]
Rotate_unrotated(shards, starting_index) ==
    SubSeq(shards, 1, starting_index) \o SubSeq(shards, starting_index + 1, Len(shards))

\* shards[starting_index:] + shards[:starting_index]
Rotate(shards, starting_index) ==
    SubSeq(shards, starting_index + 1, Len(shards)) \o SubSeq(shards, 1, starting_index)

\* itertools.cycle(items): the items and the 0-based index of the next one
cycle(items) == [items |-> items, idx |-> 0]

\* a next() that returns the item under the cursor and leaves the cursor
\* where it was: two calls return the same position
cycle_next_stuck(c) ==
    IF Len(c.items) = 0
    THEN [outcome |-> "StopIteration", value |-> None, cycle |-> c]
    ELSE [outcome |-> "ok", value |-> c.items[c.idx + 1], cycle |-> c]

\* a plain iterator in place of the cycle: exhausted after one pass
cycle_next_once(c) ==
    IF c.idx >= Len(c.items)
    THEN [outcome |-> "StopIteration", value |-> None, cycle |-> c]
    ELSE [outcome |-> "ok", value |-> c.items[c.idx + 1],
          cycle |-> [c EXCEPT !.idx = c.idx + 1]]

\* cycle.next(): StopIteration over no items, else the next item, wrapping
cycle_next(c) ==
    IF Len(c.items) = 0
    THEN [outcome |-> "StopIteration", value |-> None, cycle |-> c]
    ELSE [outcome |-> "ok", value |-> c.items[c.idx + 1],
          cycle |-> [c EXCEPT !.idx = (c.idx + 1) % Len(c.items)]]

\* the values randint(0, max_index) may draw in __init__
StartingIndexes(shards) == 0..Max(0, Len(shards) - 1)

\* __init__ after the super call: resolve, rotate, build the cycle
RoundRobin_body(self, items, starting_index) ==
    LET shards == get_shards(self, items)
    IN [cls |-> self.cls, shard_group |-> self.shard_group,
        shards_cycle |-> cycle(Rotate(shards, starting_index))]

RoundRobin_init(self, shard_group, items, starting_index) ==
    LET base == super_init("RoundRobin", self, shard_group)
    IN IF base.outcome # "ok" THEN base
       ELSE [outcome |-> "ok", self |-> RoundRobin_body(base.self, items, starting_index)]

\* a pick_shard that resolves the registry again at every call
RoundRobin_pick_live(self, model) ==
    LET o == CHOOSE o \in Orders(DOMAIN databases) : TRUE
        shards == get_shards(self, Items(databases, o))
        r == cycle_next(cycle(shards))
    IN [outcome |-> r.outcome, value |-> r.value, self |-> self]

\* pick_shard: return self._shards_cycle.next()
RoundRobin_pick_shard(self, model) ==
    LET r == cycle_next(self.shards_cycle)
    IN [outcome |-> r.outcome, value |-> r.value,
        self |-> [self EXCEPT !.shards_cycle = r.cycle]]

----------------------------------------------------------------------------
(* BaseShardedModelBucketingStrategy                                       *)

\* a get_shard that runs the selection again instead of reading the entity
Sticky_get_reselect(self, model) ==
    IF self.cls = "RoundRobin" THEN RoundRobin_pick_shard(self, model)
    ELSE [outcome |-> "ok", value |-> None, self |-> self]

\* a get_shard that refuses an entity without a shard
Sticky_get_checked(self, model) ==
    IF model.shard = None
    THEN [outcome |-> "UnassignedShard", value |-> None, self |-> self]
    ELSE [outcome |-> "ok", value |-> model.shard, self |-> self]

\* get_shard: return model_sharded_by.shard
Sticky_get_shard(self, model) == [outcome |-> "ok", value |-> model.shard, self |-> self]

----------------------------------------------------------------------------
(* RandomBucketingStrategy                                                 *)

\* __init__ after the super call: self.shards = self.get_shards(databases)
Shards_body(self, items) ==
    [cls |-> self.cls, shard_group |-> self.shard_group, shards |-> get_shards(self, items)]

\* __init__: super(RoundRobinBucketingStrategy, self).__init__(shard_group) first
Random_init(self, shard_group, items) ==
    LET base == super_init("RoundRobin", self, shard_group)
    IN IF base.outcome # "ok" THEN base
       ELSE [outcome |-> "ok", self |-> Shards_body(base.self, items)]

\* a choice that answers None over an empty sequence
choice_or_none(seq, u) ==
    IF u + 1 \in 1..Len(seq)
    THEN [outcome |-> "ok", value |-> seq[u + 1]]
    ELSE [outcome |-> "ok", value |-> None]

\* random.choice(seq) with the draw u = int(random() * len(seq))
choice(seq, u) ==
    IF u + 1 \in 1..Len(seq)
    THEN [outcome |-> "ok", value |-> seq[u + 1]]
    ELSE [outcome |-> "IndexError", value |-> None]

\* the draws int(random() * len(seq)) can produce
Draws(seq) == 0..Max(0, Len(seq) - 1)

\* pick_shard: return choice(self.shards)
Random_pick_shard(self, model, u) ==
    LET r == choice(self.shards, u)
    IN [outcome |-> r.outcome, value |-> r.value, self |-> self]

----------------------------------------------------------------------------
(* ModBucketingStrategy, SavedModBucketingStrategy                         *)

\* __init__: the same super(RoundRobinBucketingStrategy, self) call
Mod_init(self, shard_group, items) ==
    LET base == super_init("RoundRobin", self, shard_group)
    IN IF base.outcome # "ok" THEN base
       ELSE [outcome |-> "ok", self |-> Shards_body(base.self, items)]

\* the value of the expression self.shards[hash(str(pk)) % len(self.shards)]
Mod_element(self, model) == self.shards[(hash(str(model.pk)) % Len(self.shards)) + 1]

\* pick_shard: the expression is an expression statement.  Over no shards
\* the % raises ZeroDivisionError; otherwise Mod_element is computed and
\* dropped, and the method falls off its end, returning None
Mod_pick_shard(self, model) ==
    IF Len(self.shards) = 0
    THEN [outcome |-> "ZeroDivisionError", value |-> None, self |-> self]
    ELSE [outcome |-> "ok", value |-> None, self |-> self]

\* get_shard: the same statement
Mod_get_shard(self, model) ==
    IF Len(self.shards) = 0
    THEN [outcome |-> "ZeroDivisionError", value |-> None, self |-> self]
    ELSE [outcome |-> "ok", value |-> None, self |-> self]

----------------------------------------------------------------------------
(* Method resolution                                                       *)

\* the first class of the instance's MRO that defines pick_shard
pick_shard(self, model, u) ==
    CASE self.cls = "RoundRobin" -> RoundRobin_pick_shard(self, model)
      [] self.cls = "Random" -> Random_pick_shard(self, model, u)
      [] self.cls \in {"Mod", "SavedMod"} -> Mod_pick_shard(self, model)

\* the first class of the instance's MRO that defines get_shard
get_shard(self, model) ==
    CASE self.cls \in StickyClasses -> Sticky_get_shard(self, model)
      [] self.cls = "Mod" -> Mod_get_shard(self, model)

\* the constructor the class resolves to
init(self, shard_group, items, starting_index) ==
    CASE self.cls = "RoundRobin" -> RoundRobin_init(self, shard_group, items, starting_index)
      [] self.cls = "Random" -> Random_init(self, shard_group, items)
      [] self.cls \in {"Mod", "SavedMod"} -> Mod_init(self, shard_group, items)

----------------------------------------------------------------------------
(* Actions                                                                 *)

\* what a method reads of the entity passed to it: the modulo methods the pk,
\* the sticky get_shard the shard, the other methods nothing
ArgsRead(cls, op, model) ==
    [pk |-> IF cls \in {"Mod", "SavedMod"} /\ ~(op = "get_shard" /\ cls = "SavedMod")
            THEN model.pk ELSE NoModel.pk,
     shard |-> IF op = "get_shard" /\ cls \in StickyClasses
               THEN model.shard ELSE NoModel.shard]

\* strategy = cls(shard_group, databases), by a caller that holds no instance.
\* An exception leaves the caller without one.  The call record lists what
\* the registry resolves to for the group at that moment.
Construct(cls, shard_group) ==
    /\ strategy = NoInstance
    /\ \E o \in Orders(DOMAIN databases) :
         LET items == Items(databases, o)
             shards == get_shards(Base_init(new(cls), shard_group), items)
         IN \E starting_index \in (IF cls = "RoundRobin" THEN StartingIndexes(shards) ELSE {0}) :
              LET r == init(new(cls), shard_group, items, starting_index)
              IN /\ strategy' = IF r.outcome = "ok" THEN r.self ELSE NoInstance
                 /\ ret' = Call("__init__", cls, NoModel, r.outcome, None, shards)
                 /\ resolved' = IF r.outcome = "ok" THEN shards ELSE resolved
                 /\ offset' = IF r.outcome = "ok" THEN starting_index ELSE offset
    /\ picks' = <<>>
    /\ UNCHANGED <<databases, hash_table, threads>>

New_RoundRobin == \E g \in Groups : Construct("RoundRobin", g)

New_Random == \E g \in Groups : Construct("Random", g)

New_Mod == \E cls \in {"Mod", "SavedMod"}, g \in Groups : Construct(cls, g)

\* strategy = BaseBucketingStrategy(shard_group)
New_Base ==
    /\ strategy = NoInstance
    /\ \E g \in Groups :
         /\ strategy' = Base_init(new("Base"), g)
         /\ ret' = Call("__init__", "Base", NoModel, "ok", None, <<>>)
    /\ UNCHANGED <<databases, picks, resolved, offset, hash_table, threads>>

\* strategy.pick_shard(model) on an entity that carries no shard yet
Call_pick_shard ==
    /\ strategy.cls \in Classes
    /\ Len(picks) < MaxCalls
    /\ \E pk \in PKs :
       \E u \in (IF strategy.cls = "Random" THEN Draws(strategy.shards) ELSE {0}) :
         LET model == [pk |-> pk, shard |-> None]
             r == pick_shard(strategy, model, u)
         IN /\ strategy' = r.self
            /\ ret' = Call("pick_shard", strategy.cls, ArgsRead(strategy.cls, "pick_shard", model),
                           r.outcome, r.value, <<>>)
            /\ picks' = IF r.outcome = "ok" /\ strategy.cls = "RoundRobin"
                        THEN Append(picks, r.value) ELSE picks
    /\ UNCHANGED <<databases, resolved, offset, hash_table, threads>>

\* strategy.get_shard(model)
Call_get_shard ==
    /\ strategy.cls \in Classes
    /\ \E model \in Entities :
         LET r == get_shard(strategy, model)
         IN /\ strategy' = r.self
            /\ ret' = Call("get_shard", strategy.cls, ArgsRead(strategy.cls, "get_shard", model),
                           r.outcome, r.value, <<>>)
    /\ UNCHANGED <<databases, picks, resolved, offset, hash_table, threads>>

\* strategy.get_shards(databases)
Call_get_shards ==
    /\ strategy # NoInstance
    /\ \E o \in Orders(DOMAIN databases) :
         ret' = Call("get_shards", strategy.cls, NoModel, "ok", None,
                     get_shards(strategy, Items(databases, o)))
    /\ UNCHANGED <<databases, strategy, picks, resolved, offset, hash_table, threads>>

\* the configs the lifecycle specifications move the registry through:
\* a shard of the default group, and a primary of it
LifecycleConfigs == {c \in Configs : c.SHARD_GROUP = "default" /\ c.PRIMARY \in {None, PyTrue}}

\* the registry's owner adds a partition or changes one's config
Registry_set ==
    /\ \E name \in Names, config \in LifecycleConfigs :
         /\ (name \in DOMAIN databases => databases[name] # config)
         /\ databases' = [n \in DOMAIN databases \cup {name} |->
                             IF n = name THEN config ELSE databases[n]]
    /\ UNCHANGED <<strategy, ret, picks, resolved, offset, hash_table, threads>>

\* the registry's owner removes a partition
Registry_del ==
    /\ \E name \in DOMAIN databases :
         databases' = [n \in DOMAIN databases \ {name} |-> databases[n]]
    /\ UNCHANGED <<strategy, ret, picks, resolved, offset, hash_table, threads>>

NoThreads == [t \in 1..NumThreads |-> [pc |-> "idle", value |-> None, pos |-> 0, k |-> 0]]
NoHash == [s \in StrKeys |-> 0]

----------------------------------------------------------------------------
(* The lifecycle: construct from the registry, then select, while the      *)
(* registry's owner changes it                                             *)

Init ==
    /\ databases \in Registries(LifecycleConfigs)
    /\ strategy = NoInstance
    /\ ret = NoCall
    /\ picks = <<>>
    /\ resolved = <<>>
    /\ offset = 0
    /\ hash_table = NoHash
    /\ threads = NoThreads

Next ==
    \/ New_RoundRobin
    \/ New_Random
    \/ New_Mod
    \/ Call_pick_shard
    \/ Call_get_shard
    \/ Registry_set
    \/ Registry_del

Spec == Init /\ [][Next]_vars

----------------------------------------------------------------------------
(* The resolver alone, over registries of every config                     *)

ResolverInit ==
    /\ databases \in Registries(Configs)
    /\ strategy = NoInstance
    /\ ret = NoCall
    /\ picks = <<>>
    /\ resolved = <<>>
    /\ offset = 0
    /\ hash_table = NoHash
    /\ threads = NoThreads

ResolverNext == New_Base \/ Call_get_shards

SpecResolver == ResolverInit /\ [][ResolverNext]_vars

----------------------------------------------------------------------------
(* The methods of each class as functions of the instance they are called  *)
(* on: the instance is drawn from those carrying the attributes the        *)
(* class's __init__ assigns after its super call.  Of these the shipped    *)
(* constructors yield the Round-Robin ones; the others stand for instances *)
(* initialised by a subclass, the module's extension mechanism.            *)

Initialised(cls, shard_group, items, starting_index) ==
    IF cls = "RoundRobin"
    THEN RoundRobin_body(Base_init(new(cls), shard_group), items, starting_index)
    ELSE Shards_body(Base_init(new(cls), shard_group), items)

MethodsInit ==
    /\ databases \in Registries(LifecycleConfigs)
    /\ \E cls \in Classes, g \in Groups, o \in Orders(DOMAIN databases) :
         LET items == Items(databases, o)
             shards == get_shards(Base_init(new(cls), g), items)
         IN \E starting_index \in (IF cls = "RoundRobin" THEN StartingIndexes(shards) ELSE {0}) :
              /\ strategy = Initialised(cls, g, items, starting_index)
              /\ resolved = shards
              /\ offset = starting_index
    /\ ret = NoCall
    /\ picks = <<>>
    /\ hash_table \in [StrKeys -> HashValues]
    /\ threads = NoThreads

MethodsNext == Call_pick_shard \/ Call_get_shard

SpecMethods == MethodsInit /\ [][MethodsNext]_vars

----------------------------------------------------------------------------
(* Several threads call pick_shard on one Round-Robin instance.  A thread  *)
(* may be preempted between any two bytecodes of pick_shard; the call of   *)
(* cycle.next() is one C call made while holding the interpreter lock.     *)

\* LOAD_FAST self, LOAD_ATTR _shards_cycle, LOAD_ATTR next
Thread_load(t) ==
    /\ threads[t].pc = "idle"
    /\ threads' = [threads EXCEPT ![t].pc = "loaded"]
    /\ UNCHANGED <<databases, strategy, ret, picks, resolved, offset, hash_table>>

\* CALL_FUNCTION: cycle.next() on the shared cycle
Thread_next(t) ==
    /\ threads[t].pc = "loaded"
    /\ LET r == RoundRobin_pick_shard(strategy, NoModel)
       IN /\ strategy' = r.self
          /\ threads' = [threads EXCEPT ![t] =
                            [pc |-> IF r.outcome = "ok" THEN "called" ELSE "raised",
                             value |-> r.value,
                             pos |-> strategy.shards_cycle.idx,
                             k |-> IF r.outcome = "ok" THEN Len(picks) + 1 ELSE 0]]
          /\ picks' = IF r.outcome = "ok" THEN Append(picks, r.value) ELSE picks
    /\ UNCHANGED <<databases, ret, resolved, offset, hash_table>>

\* RETURN_VALUE: the caller receives the value
Thread_return(t) ==
    /\ threads[t].pc = "called"
    /\ threads' = [threads EXCEPT ![t].pc = "returned"]
    /\ ret' = Call("pick_shard", strategy.cls, NoModel, "ok", threads[t].value, <<>>)
    /\ UNCHANGED <<databases, strategy, picks, resolved, offset, hash_table>>

ShardConfig == [SHARD_GROUP |-> "default", PRIMARY |-> None]

ConcurrentInit ==
    /\ \E n \in 0..MaxPartitions : databases = [name \in {AllNames[i] : i \in 1..n} |-> ShardConfig]
    /\ \E o \in Orders(DOMAIN databases) :
         LET items == Items(databases, o)
             shards == get_shards(Base_init(new("RoundRobin"), "default"), items)
         IN \E starting_index \in StartingIndexes(shards) :
              /\ strategy = RoundRobin_init(new("RoundRobin"), "default", items, starting_index).self
              /\ resolved = shards
              /\ offset = starting_index
    /\ ret = NoCall
    /\ picks = <<>>
    /\ hash_table = NoHash
    /\ threads = NoThreads

ConcurrentNext == \E t \in 1..NumThreads : Thread_load(t) \/ Thread_next(t) \/ Thread_return(t)

SpecConcurrent == ConcurrentInit /\ [][ConcurrentNext]_vars

----------------------------------------------------------------------------
(* Properties                                                              *)

\* the shard set an instance selects from
ShardsOf(self) == IF self.cls = "RoundRobin" THEN self.shards_cycle.items ELSE self.shards

\* the k-th member of the resolved sequence rotated by the drawn offset
RotatedAt(k) == resolved[((offset + k - 1) % Len(resolved)) + 1]

\* C1: on a Round-Robin instance over a non-empty shard set of N names, the
\* k-th pick_shard since construction returns the resolved sequence rotated
\* by the drawn offset at (k-1) mod N, and any N consecutive calls return
\* every shard exactly once.
C1_RoundRobinRotation ==
    (strategy.cls = "RoundRobin" /\ Len(resolved) > 0) =>
        LET N == Len(resolved)
        IN /\ Cardinality(Range(resolved)) = N
           /\ \A k \in 1..Len(picks) : picks[k] = RotatedAt(k)
           /\ \A j \in 1..Len(picks) :
                j + N - 1 <= Len(picks) =>
                    /\ {picks[i] : i \in j..(j + N - 1)} = Range(resolved)
                    /\ \A a, b \in j..(j + N - 1) : picks[a] = picks[b] => a = b

\* the scenario of three shards resolved as s0, s1, s2 with offset 0
C1_Witness ==
    /\ strategy.cls = "RoundRobin"
    /\ resolved = <<"s0", "s1", "s2">>
    /\ offset = 0
    /\ picks = <<"s0", "s1", "s2", "s0">>

\* C9: the Round-Robin pick sequence over N >= 1 shards has period N and
\* never ends: call k+N returns what call k returned, and no call raises.
C9_Periodic ==
    (strategy.cls = "RoundRobin" /\ Len(resolved) >= 1) =>
        /\ \A k \in 1..Len(picks) :
             k + Len(resolved) <= Len(picks) => picks[k + Len(resolved)] = picks[k]
        /\ (ret.op = "pick_shard" => ret.outcome = "ok" /\ ret.value = picks[Len(picks)])

C9_Witness ==
    /\ strategy.cls = "RoundRobin"
    /\ Len(resolved) >= 2
    /\ offset >= 1
    /\ Len(picks) > Len(resolved)
    /\ ret.op = "pick_shard"

\* C3: get_shards returns a name iff the registry holds it with the
\* strategy's group and a PRIMARY that is false or absent, lists no name
\* twice, raises nothing (an empty list when nothing matches), and leaves
\* the registry as it was.
C3_Resolver ==
    /\ [](ret.op = "get_shards" =>
            /\ ret.outcome = "ok"
            /\ \A name \in Names :
                 name \in Range(ret.list) <=>
                    /\ name \in DOMAIN databases
                    /\ databases[name].SHARD_GROUP = strategy.shard_group
                    /\ databases[name].PRIMARY \in {None, PyFalse}
            /\ Cardinality(Range(ret.list)) = Len(ret.list))
    /\ [][ret'.op = "get_shards" => databases' = databases]_vars

\* a call that includes a partition flagged PRIMARY False and leaves out a
\* primary of the group and a partition of another group
C3_Witness ==
    /\ ret.op = "get_shards"
    /\ \E a, b, c \in DOMAIN databases :
         /\ databases[a].PRIMARY = PyFalse /\ a \in Range(ret.list)
         /\ databases[b].PRIMARY = PyTrue /\ databases[b].SHARD_GROUP = strategy.shard_group
         /\ databases[c].SHARD_GROUP \notin {strategy.shard_group} /\ databases[c].PRIMARY = None
         /\ b \notin Range(ret.list) /\ c \notin Range(ret.list)

C8_ConstructionSucceeds ==
    (ret.op = "__init__" /\ ret.list = <<>>) => ret.outcome = "ok"

\* C2 as stated: a modulo strategy (stateless or saved) is built over the
\* non-empty shard set its registry resolves to, and its pick_shard, and the
\* stateless one's get_shard, return the shard at index
\* hash(str(pk)) mod len(shards) of that set.
C2_ModReturnsElement ==
    /\ (ret.op = "__init__" /\ ret.cls \in {"Mod", "SavedMod"} /\ ret.list # <<>>) =>
          /\ ret.outcome = "ok"
          /\ strategy.cls = ret.cls
          /\ strategy.shards = ret.list
    /\ (/\ ret.cls \in {"Mod", "SavedMod"}
        /\ ret.op = "pick_shard" \/ (ret.op = "get_shard" /\ ret.cls = "Mod")
        /\ Len(strategy.shards) > 0) =>
          /\ ret.outcome = "ok"
          /\ ret.value = Mod_element(strategy, ret.model)
          /\ ret.value \in Range(strategy.shards)

----------------------------------------------------------------------------
(* Properties of the methods                                               *)

\* the exceptions by which a selection over no shards ends
NoShardsErrors == {"StopIteration", "IndexError", "ZeroDivisionError"}

IsSelection == ret.op \in {"pick_shard", "get_shard"}

\* C4 as stated: over an empty shard set every pick_shard and every
\* get_shard ends in the no-shards error and returns nothing.
C4_EveryCallFails ==
    (IsSelection /\ ShardsOf(strategy) = <<>>) => ret.outcome \in NoShardsErrors

\* C4 amended: over an empty shard set pick_shard of every strategy, and
\* get_shard of the stateless modulo strategy, raise (StopIteration from the
\* cycle, IndexError from choice, ZeroDivisionError from the modulo) and
\* return nothing; get_shard of a sticky strategy does not look at the shard
\* set and returns the shard stored on the entity.
C4_Amended ==
    (IsSelection /\ ShardsOf(strategy) = <<>>) =>
        IF ret.op = "get_shard" /\ ret.cls \in StickyClasses
        THEN ret.outcome = "ok" /\ ret.value = ret.model.shard
        ELSE /\ ret.value = None
             /\ ret.outcome = (CASE ret.cls = "RoundRobin" -> "StopIteration"
                                 [] ret.cls = "Random" -> "IndexError"
                                 [] ret.cls \in {"Mod", "SavedMod"} -> "ZeroDivisionError")

\* a Round-Robin instance over no shards whose pick_shard raised, in a
\* registry that holds partitions (all primaries)
C4_Witness ==
    /\ ret.op = "pick_shard"
    /\ ret.cls = "RoundRobin"
    /\ ShardsOf(strategy) = <<>>
    /\ ret.outcome = "StopIteration"
    /\ DOMAIN databases # {}
    /\ strategy.shard_group = "default"

\* C6: get_shard of a sticky strategy returns the shard stored on the
\* entity and changes nothing of the instance: not the shard set, not the
\* Round-Robin cursor, so not the sequence pick_shard returns.
C6_StickyGetFrame ==
    [][(ret'.op = "get_shard" /\ ret'.cls \in StickyClasses /\ ret' # ret) =>
          /\ ret'.outcome = "ok"
          /\ ret'.value = ret'.model.shard
          /\ strategy' = strategy
          /\ picks' = picks]_vars

\* a get_shard on a Round-Robin instance between two picks
C6_Witness ==
    /\ ret.op = "get_shard"
    /\ ret.cls = "RoundRobin"
    /\ ret.value \in Names
    /\ Len(picks) >= 1
    /\ Len(ShardsOf(strategy)) >= 2

\* C7 as stated: get_shard of a sticky strategy on an entity whose shard was
\* never set ends in an error and returns no value.
C7_UnassignedRaises ==
    (ret.op = "get_shard" /\ ret.cls \in StickyClasses /\ ret.model.shard = None) =>
        ret.outcome # "ok"

\* C7 amended: that call raises nothing and returns the unset value (None)
\* it read from the entity.
C7_Amended ==
    (ret.op = "get_shard" /\ ret.cls \in StickyClasses /\ ret.model.shard = None) =>
        ret.outcome = "ok" /\ ret.value = None

\* a Round-Robin instance over shards asked for the shard of an entity
\* that was never given one
C7_Witness ==
    /\ ret.op = "get_shard"
    /\ ret.cls = "RoundRobin"
    /\ ret.model.shard = None
    /\ ret.outcome = "ok"
    /\ Len(ShardsOf(strategy)) >= 1

----------------------------------------------------------------------------
(* Properties of concurrent calls                                          *)

\* the threads whose call of next() has returned an item
Served == {t \in 1..NumThreads : threads[t].pc \in {"called", "returned"}}

\* C5: under every interleaving the m calls served so far were served the
\* next m cursor positions, one each: the k-th served call got position
\* (k-1) mod N of the rotation and its shard, and no two calls share a k.
C5_Serialized ==
    Len(resolved) > 0 =>
        /\ {threads[t].k : t \in Served} = 1..Cardinality(Served)
        /\ \A t, u \in Served : threads[t].k = threads[u].k => t = u
        /\ \A t \in Served :
             /\ threads[t].pos = (threads[t].k - 1) % Len(resolved)
             /\ threads[t].value = RotatedAt(threads[t].k)

\* every thread served, over fewer shards than threads, one still in flight
\* when the next was served
C5_Witness ==
    /\ Served = 1..NumThreads
    /\ Len(resolved) = 2
    /\ offset = 1
    /\ \E t, u \in Served : threads[t].k < threads[u].k /\ threads[t].pc = "called" /\ threads[u].pc = "returned"

====
